---- MODULE Spec2Model ----
(***************************************************************************)
(* State-machine model of the simulation core of space-invaders-js:        *)
(*   - ObjectPool            (src/unnamed/part_007, class ObjectPool)      *)
(*   - GameLoop              (src/src/services/GameLoop.ts, first class,   *)
(*                            the tick() scheduler)                        *)
(*   - GameLoop, 2nd variant (src/src/services/GameLoop.ts, second class,  *)
(*                            the gameLoop() scheduler with GameState)     *)
(*   - GameEngine            (src/unnamed/part_010)                        *)
(*                                                                         *)
(* Times read from the host clock are whole milliseconds.  Values the      *)
(* schedulers compute with (accumulator, fixed step) are IEEE-754 doubles; *)
(* a double d is the pair <<hi, lo>> standing for                          *)
(*        hi * (1/3 ms)  +  lo * (2^-52 / 3 ms)                            *)
(* so that 1000/60, 1000/120, ... and every sum and difference of them     *)
(* with whole milliseconds is represented exactly, and the rounding of     *)
(* each arithmetic operation to 53 bits can be computed (DRound).          *)
(***************************************************************************)
EXTENDS Integers, Sequences, FiniteSets, TLC

\* ------------------------------------------------------------------ bounds
MaxObjs == 4
MaxInitial == 2
MaxMaxSize == 2
MaxCount == 3
MaxTime == 360
MaxPending == 2
MaxFrames == 3

\* -------------------------------------------------------- double arithmetic
DVal(ms) == <<3 * ms, 0>>

DZero == <<0, 0>>

DPlus(a, b) == <<a[1] + b[1], a[2] + b[2]>>

DMinus(a, b) == <<a[1] - b[1], a[2] - b[2]>>

DTimes(n, a) == <<n * a[1], n * a[2]>>

\* a <= b and a < b on doubles (lo parts stay far below 2^52).
DLeq(a, b) == a[1] < b[1] \/ (a[1] = b[1] /\ a[2] <= b[2])

DLess(a, b) == a[1] < b[1] \/ (a[1] = b[1] /\ a[2] < b[2])

\* The binary exponent e of a value >= 1 ms: 2^e ms <= d < 2^(e+1) ms.
DExp(d) == CHOOSE e \in 0..12 : DLeq(DVal(2^e), d) /\ DLess(d, DVal(2^(e + 1)))

\* (hi * 2^52 + lo) modulo 3 * 2^k, the spacing of doubles being ulp = 3 * 2^e
\* units of lo in binade e.
DMod(d, k) ==
    LET t == (2^k) * (IF (52 - k) % 2 = 0 THEN 1 ELSE 2)
    IN  (d[1] * t + d[2]) % (3 * 2^k)

\* Arithmetic over the reals: no rounding.
DRoundExact(d) == d

\* Round to nearest double, ties to even.  Values below 1 ms only arise as
\* exact differences (Sterbenz) and as 0, and are returned unchanged.
DRound(d) ==
    IF DLess(d, DVal(1)) THEN d
    ELSE LET e == DExp(d)
             u == 3 * 2^e
             r == DMod(d, e)
         IN  IF r = 0 THEN d
             ELSE IF 2 * r < u THEN <<d[1], d[2] - r>>
             ELSE IF 2 * r > u THEN <<d[1], d[2] + (u - r)>>
             ELSE IF DMod(d, e + 1) = r THEN <<d[1], d[2] - r>>
             ELSE <<d[1], d[2] + (u - r)>>

DAdd(a, b) == DRound(DPlus(a, b))

DSub(a, b) == DRound(DMinus(a, b))

\* 1000 / fps for an fps that divides 3000.
DStep(fps) == DRound(<<3000 \div fps, 0>>)

\* ------------------------------------------------------------------- state
VARIABLES
    \* ObjectPool
    pool, activeObjects, maxSize, created, poolOp, poolRet,
    \* the argument of the last pool operation, the instance the last
    \* acquire returned (0: none), the factory() calls the last operation
    \* made and the objects it applied reset to, in order
    poolArg, acquired, factoryCalls, resets,
    \* <<a, r>> while the pool's operations since construction were a
    \* acquires followed by r releases of active instances, else NoTally
    tally,
    \* per instance: NeverActive until acquire first returns it, then the
    \* number of reset calls on it since it was last active
    resetsSinceActive,
    \* which scheduler class is instantiated, host clock and frame requests
    impl, now, rafQueue, frames,
    \* the three schedulers' fields
    loop, loop2, engine,
    \* the last operation and what it did
    op, steps, updCalls, rendCalls, threw, raised, rawDelta, effDelta,
    wasRunning,
    \* a frame was consumed while Paused since the last frame that ran
    \* updates; the argument of the last operation that takes one
    pausedFrame, arg,
    \* the number of the update call of the last operation that threw, and
    \* of the one whose callback called stop() (0: none)
    threwAt, stoppedAt,
    \* since the last start(): the effective deltas added to the accumulator
    \* less one step for every update call that returned
    unconsumed,
    \* the entities that exist, the CollisionSystem registry (a Set, in
    \* insertion order), its last operation, whether that threw, and the
    \* onCollision calls the last operation made, in order
    ents, collidables, collOp, collRaised, notified,
    \* the last call of a geometric test and its result
    query,
    \* an Entity's fields and the last operation on it
    entity, entOp,
    \* the GameStateManager's fields, the highScore item of localStorage
    \* (NoItem: absent) and the last operation on the manager
    gsm, storage, gsmOp

poolVars == <<pool, activeObjects, maxSize, created, poolOp, poolRet,
              poolArg, acquired, factoryCalls, resets, tally,
              resetsSinceActive>>

schedVars == <<impl, now, rafQueue, frames, loop, loop2, engine, op, steps,
               updCalls, rendCalls, threw, raised, rawDelta, effDelta,
               wasRunning, pausedFrame, arg, threwAt, stoppedAt, unconsumed>>

collVars == <<ents, collidables, collOp, collRaised, notified>>

geomVars == <<query>>

entVars == <<entity, entOp>>

gsmVars == <<gsm, storage, gsmOp>>

vars == <<pool, activeObjects, maxSize, created, poolOp, poolRet,
          poolArg, acquired, factoryCalls, resets, tally, resetsSinceActive,
          impl, now, rafQueue, frames, loop, loop2, engine, op, steps,
          updCalls, rendCalls, threw, raised, rawDelta, effDelta,
          wasRunning, pausedFrame, arg, threwAt, stoppedAt, unconsumed,
          ents, collidables, collOp, collRaised, notified, query,
          entity, entOp, gsm, storage, gsmOp>>

\* ============================================================== ObjectPool
\* Instances are numbered in the order factory() makes them; 0 is an object
\* the pool's factory never made.
Range(s) == {s[i] : i \in 1..Len(s)}

\* Set.delete on the insertion-ordered Set activeObjects.
SeqDelete(s, x) == SelectSeq(s, LAMBDA y : y # x)

\* A pop that would leave the last element in the array.
PopKeepsLast(s) == s

\* this.pool.pop(): the array without its last element.

Pop(s) == SubSeq(s, 1, Len(s) - 1)

\* An acquire that would never look at the free list.
FreeListIgnored(p) == FALSE

\* Line 183: acquire takes from the free list when it is not empty.
FreeListNonEmpty(p) == Len(p) > 0

\* A release that would accept any object.
IsActiveAlways(a, obj) == TRUE

\* Line 199: this.activeObjects.has(obj).
IsActive(a, obj) == obj \in Range(a)

\* A release that would push however long the free list is.
HasRoomAlways(p) == TRUE

\* A release that would push onto a free list of exactly maxSize instances.
HasRoomAtMaxSize(p) == Len(p) <= maxSize

\* Line 207: this.pool.length < this.maxSize.
HasRoom(p) == Len(p) < maxSize

\* A release that would hand the object back as it is.
ResetSkipped(obj) == <<>>

\* Line 204: this.reset(obj), as the list of objects reset was applied to.
ResetCalls(obj) == <<obj>>

\* The mark of an instance acquire() has not returned yet.
NeverActive == -1

\* resetsSinceActive after an operation that found the instances of a
\* active when it began and applied reset to the instances of done.
CountResets(since, a, done) ==
    [o \in DOMAIN since |->
        LET n == Cardinality({k \in 1..Len(done) : done[k] = o})
        IN  IF o \in Range(a) THEN n
            ELSE IF since[o] = NeverActive THEN NeverActive
            ELSE since[o] + n]

\* release(obj) on the state <<pool, activeObjects>>; returns the new state,
\* the result ("true" / "false") and the objects reset was applied to.
\* poolRet is "void" after an operation that returns nothing and "error"
\* after one that threw.
ReleaseOf(p, a, obj) ==
    IF ~IsActive(a, obj)
    THEN [pool |-> p, active |-> a, ret |-> "false", resets |-> <<>>]
    ELSE IF HasRoom(p)
         THEN [pool |-> Append(p, obj), active |-> SeqDelete(a, obj),
               ret |-> "true", resets |-> ResetCalls(obj)]
         ELSE [pool |-> p, active |-> SeqDelete(a, obj),
               ret |-> "false", resets |-> ResetCalls(obj)]

\* A walk that would stop after the first entry.
RECURSIVE ReleaseFirstOnly(_, _, _, _)
ReleaseFirstOnly(p, a, todo, done) ==
    IF todo = <<>> THEN [pool |-> p, active |-> a, resets |-> done]
    ELSE LET r == ReleaseOf(p, a, Head(todo))
         IN  [pool |-> r.pool, active |-> r.active, resets |-> done \o r.resets]

\* activeObjects.forEach(obj => this.release(obj)): insertion order, entries
\* deleted during the walk are not visited again.
RECURSIVE ReleaseEach(_, _, _, _)
ReleaseEach(p, a, todo, done) ==
    IF todo = <<>> THEN [pool |-> p, active |-> a, resets |-> done]
    ELSE LET r == ReleaseOf(p, a, Head(todo))
         IN  ReleaseEach(r.pool, r.active, Tail(todo), done \o r.resets)

\* A warmup that would always add count instances.
WarmupAddsCount(count, len) == count

\* Lines 256-258: the number of times the loop body runs.
WarmupShortfall(count, len) == IF count > len THEN count - len ELSE 0

\* A trim that would discard nothing.
TrimKeepsAll(p, m) == p

\* Lines 269-271: pop while the array is longer than maxSize.
TrimTo(p, m) == IF Len(p) > m THEN SubSeq(p, 1, m) ELSE p

NoTally == <<-1, -1>>

PoolInit ==
    /\ maxSize \in (-1)..MaxMaxSize
    /\ \E initialSize \in 0..MaxInitial :
          /\ pool = [i \in 1..initialSize |-> i]
          /\ created = initialSize
          /\ factoryCalls = initialSize
    /\ activeObjects = <<>>
    /\ poolOp = "constructor"
    /\ poolRet = "void"
    /\ poolArg = 0
    /\ acquired = 0
    /\ resets = <<>>
    /\ tally = <<0, 0>>
    /\ resetsSinceActive = [o \in 1..MaxObjs |-> NeverActive]

acquire ==
    /\ IF FreeListNonEmpty(pool)
       THEN /\ activeObjects' = Append(activeObjects, pool[Len(pool)])
            /\ acquired' = pool[Len(pool)]
            /\ pool' = Pop(pool)
            /\ created' = created
            /\ factoryCalls' = 0
       ELSE /\ created < MaxObjs
            /\ activeObjects' = Append(activeObjects, created + 1)
            /\ acquired' = created + 1
            /\ created' = created + 1
            /\ factoryCalls' = 1
            /\ pool' = pool
    /\ poolOp' = "acquire"
    /\ poolRet' = "void"
    /\ poolArg' = 0
    /\ resets' = <<>>
    /\ tally' = IF tally # NoTally /\ tally[2] = 0
                THEN <<tally[1] + 1, 0>> ELSE NoTally
    /\ resetsSinceActive' =
          [resetsSinceActive EXCEPT
              ![acquired'] = IF @ = NeverActive THEN 0 ELSE @]
    /\ UNCHANGED <<maxSize>>
    /\ UNCHANGED <<schedVars, collVars, geomVars, entVars, gsmVars>>

release ==
    \E obj \in 0..created :
        LET r == ReleaseOf(pool, activeObjects, obj)
        IN  /\ pool' = r.pool
            /\ activeObjects' = r.active
            /\ poolRet' = r.ret
            /\ resets' = r.resets
            /\ poolOp' = "release"
            /\ poolArg' = obj
            /\ tally' = IF tally # NoTally /\ r.resets # <<>>
                        THEN <<tally[1], tally[2] + 1>> ELSE NoTally
            /\ acquired' = 0
            /\ factoryCalls' = 0
            /\ resetsSinceActive' =
                  CountResets(resetsSinceActive, activeObjects, r.resets)
            /\ UNCHANGED <<maxSize, created>>
            /\ UNCHANGED <<schedVars, collVars, geomVars, entVars, gsmVars>>

releaseAll ==
    LET r == ReleaseEach(pool, activeObjects, activeObjects, <<>>)
    IN  /\ pool' = r.pool
        /\ activeObjects' = r.active
        /\ resets' = r.resets
        /\ poolOp' = "releaseAll"
        /\ tally' = NoTally
        /\ poolRet' = "void"
        /\ poolArg' = 0
        /\ acquired' = 0
        /\ factoryCalls' = 0
        /\ resetsSinceActive' =
              CountResets(resetsSinceActive, activeObjects, r.resets)
        /\ UNCHANGED <<maxSize, created>>
        /\ UNCHANGED <<schedVars, collVars, geomVars, entVars, gsmVars>>

clear ==
    /\ pool' = <<>>
    /\ activeObjects' = <<>>
    /\ poolOp' = "clear"
    /\ tally' = NoTally
    /\ poolRet' = "void"
    /\ poolArg' = 0
    /\ acquired' = 0
    /\ factoryCalls' = 0
    /\ resets' = <<>>
    /\ resetsSinceActive' = CountResets(resetsSinceActive, activeObjects, <<>>)
    /\ UNCHANGED <<maxSize, created>>
    /\ UNCHANGED <<schedVars, collVars, geomVars, entVars, gsmVars>>

warmup ==
    \E count \in (-1)..MaxCount :
        LET n == WarmupShortfall(count, Len(pool))
        IN  /\ created + n <= MaxObjs
            /\ pool' = pool \o [i \in 1..n |-> created + i]
            /\ created' = created + n
            /\ factoryCalls' = n
            /\ poolOp' = "warmup"
            /\ tally' = NoTally
            /\ poolRet' = "void"
            /\ poolArg' = count
            /\ acquired' = 0
            /\ resets' = <<>>
            /\ UNCHANGED <<maxSize, activeObjects, resetsSinceActive>>
            /\ UNCHANGED <<schedVars, collVars, geomVars, entVars, gsmVars>>

trim ==
    \E m \in (-1)..MaxCount :
        /\ IF m < 0
           THEN /\ pool' = pool
                /\ poolRet' = "error"
           ELSE /\ pool' = TrimTo(pool, m)
                /\ poolRet' = "void"
        /\ poolOp' = "trim"
        /\ tally' = NoTally
        /\ poolArg' = m
        /\ acquired' = 0
        /\ factoryCalls' = 0
        /\ resets' = <<>>
        /\ UNCHANGED <<maxSize, activeObjects, created, resetsSinceActive>>
        /\ UNCHANGED <<schedVars, collVars, geomVars, entVars, gsmVars>>


\* ============================================================== schedulers
Impls == {"GameLoop", "GameLoop2", "GameEngine"}

\* Milliseconds by which the host clock moves from one operation to the frame
\* the host delivers next, or while no frame is requested.
Deltas == {25, 50, 310}

\* Rates setTargetFPS is called with (those not above 0 are rejected).
Rates == {-30, 0, 60, 120}

\* Which update call of a frame throws (0: none), at most MaxThrowAt.
MaxThrowAt == 1

\* During which update call of a frame the callback calls stop() (0: none),
\* at most MaxStopAt.
MaxStopAt == 1

\* Cap, in ms, on what a scheduler may hold in its accumulator.
MaxAcc == 70

DefaultPanicThreshold == 300
DefaultMaxFrameTime == 250
DefaultMaxDeltaTime == 32
DefaultTargetFPS == 60

\* requestAnimationFrame handles; 0 is null.  A new handle is the least one
\* that is neither pending nor in held (every field that receives a handle is
\* overwritten by it, so a handle no longer pending may be given out again).
RafIds == 1..(MaxPending + 3)

NewRafId(q, held) ==
    CHOOSE i \in RafIds :
        /\ i \notin (q \cup held)
        /\ \A j \in RafIds : j \notin (q \cup held) => i <= j

NoFrame == [steps |-> 0, done |-> 0, upd |-> 0, rend |-> 0, threw |-> FALSE,
            raised |-> FALSE, raw |-> 0, eff |-> DZero, ran |-> FALSE,
            paused |-> FALSE, arg |-> 0, threwAt |-> 0, stoppedAt |-> 0]

\* What is left of u and the delta of a frame r after the steps of length step
\* whose update call returned.
Unconsumed(u, r, step) == DMinus(DPlus(u, r.eff), DTimes(r.done, step))

\* The history of the operation just performed.
Did(o, r, wasRun) ==
    /\ op' = o
    /\ steps' = r.steps
    /\ updCalls' = r.upd
    /\ rendCalls' = r.rend
    /\ threw' = r.threw
    /\ raised' = r.raised
    /\ rawDelta' = r.raw
    /\ effDelta' = r.eff
    /\ wasRunning' = wasRun
    /\ pausedFrame' = (IF r.paused THEN TRUE
                       ELSE IF r.ran \/ (o = "start" /\ ~wasRun) THEN FALSE
                       ELSE pausedFrame)
    /\ arg' = r.arg
    /\ threwAt' = r.threwAt
    /\ stoppedAt' = r.stoppedAt

SchedInit ==
    /\ impl \in Impls
    /\ now = 0
    /\ rafQueue = {}
    /\ frames = 0
    /\ loop = [running |-> FALSE, lastTimestamp |-> 0,
               targetFPS |-> DefaultTargetFPS,
               frameInterval |-> DStep(DefaultTargetFPS),
               accumulatedTime |-> DZero, animationFrameId |-> 0]
    /\ loop2 = [lastFrameTime |-> 0, isRunning |-> FALSE, accumulator |-> DZero,
                currentState |-> "INIT"]
    /\ engine = [isPaused |-> FALSE, isRunning |-> FALSE, lastFrameTime |-> 0,
                 rafId |-> 0, accumulator |-> DZero]
    /\ op = "constructor"
    /\ steps = 0
    /\ updCalls = 0
    /\ rendCalls = 0
    /\ threw = FALSE
    /\ raised = FALSE
    /\ rawDelta = 0
    /\ effDelta = DZero
    /\ wasRunning = FALSE
    /\ pausedFrame = FALSE
    /\ arg = 0
    /\ threwAt = 0
    /\ stoppedAt = 0
    /\ unconsumed = DZero

\* The host clock moves on while no frame is requested.  Time that passes
\* then shows only in the next start(), so the clock is moved once, right
\* after the operation that brought the running loop to rest.
Advance ==
    \E dt \in Deltas :
        /\ rafQueue = {}
        /\ wasRunning
        /\ op \in {"stop", "start", "frame"}
        /\ now + dt <= MaxTime
        /\ now' = now + dt
        /\ Did("advance", NoFrame, FALSE)
        /\ UNCHANGED <<impl, frames, rafQueue, loop, loop2, engine, unconsumed>>
        /\ UNCHANGED <<poolVars, collVars, geomVars, entVars, gsmVars>>

\* ------------------------------------------ GameLoop (first class, tick())
\* Two clamps the code does not have: one that cuts the delta to the
\* threshold, one that does not cut at all.
PanicClampToThreshold(raw, threshold, step) ==
    IF raw > threshold THEN DVal(threshold) ELSE DVal(raw)

PanicClampNone(raw, threshold, step) == DVal(raw)

\* Lines 83-87: the delta added to the accumulator for a raw delta.

PanicClamp(raw, threshold, step) ==
    IF raw > threshold THEN step ELSE DVal(raw)

\* Lines 92-101: drain the accumulator in fixed steps; the update call
\* number throwAt throws, and its step is not subtracted.
\* The update call number stopAt has been made: its callback called stop().
Stopped(n, stopAt) == stopAt > 0 /\ n >= stopAt

\* A loop that would also end when the scheduler has been stopped.
WhileRunning(acc, step, running) == running /\ DLeq(step, acc)

\* Line 92 (250 in the second class, 133 in GameEngine): the loop goes on
\* while the accumulator holds a step, whether the scheduler is running or
\* not.
WhileCondition(acc, step, running) == DLeq(step, acc)

RECURSIVE Drain(_, _, _, _, _)
Drain(acc, step, n, throwAt, stopAt) ==
    IF ~WhileCondition(acc, step, ~Stopped(n, stopAt))
    THEN [acc |-> acc, n |-> n, threw |-> FALSE]
    ELSE IF n + 1 = throwAt THEN [acc |-> acc, n |-> n + 1, threw |-> TRUE]
    ELSE Drain(DSub(acc, step), step, n + 1, throwAt, stopAt)

StopLoop(l, q) ==
    [self |-> [l EXCEPT !.running = FALSE, !.animationFrameId = 0],
     queue |-> q \ {l.animationFrameId}]

Tick(l, q, t, throwAt, stopAt, renderThrows) ==
    IF ~l.running THEN [self |-> l, queue |-> q] @@ NoFrame
    ELSE LET id == NewRafId(q, {})
             raw == t - l.lastTimestamp
             eff == PanicClamp(raw, DefaultPanicThreshold, l.frameInterval)
             d == Drain(DAdd(l.accumulatedTime, eff), l.frameInterval, 0, throwAt,
                        stopAt)
             l1 == [l EXCEPT !.animationFrameId = id, !.lastTimestamp = t,
                             !.accumulatedTime = d.acc]
             failed == d.threw \/ renderThrows
             stopped == Stopped(d.n, stopAt)
             s == StopLoop(l1, q \cup {id})
         IN  [self |-> IF failed \/ stopped THEN s.self ELSE l1,
              queue |-> IF failed \/ stopped THEN s.queue ELSE q \cup {id},
              steps |-> d.n, done |-> IF d.threw THEN d.n - 1 ELSE d.n,
              upd |-> d.n, rend |-> IF d.threw THEN 0 ELSE 1,
              threw |-> failed, raised |-> failed, raw |-> raw, eff |-> eff,
              ran |-> TRUE, paused |-> FALSE, arg |-> 0,
              threwAt |-> IF d.threw THEN d.n ELSE 0,
              stoppedAt |-> IF stopped THEN stopAt ELSE 0]

\* A start() without the guard.
StartGuardNone(running) == FALSE

\* Line 47: start() returns at once when the loop is running.

StartGuard(running) == running

GameLoop_start ==
    /\ impl = "GameLoop"
    /\ \E renderThrows \in BOOLEAN :
         IF StartGuard(loop.running)
         THEN /\ Did("start", NoFrame, loop.running)
              /\ UNCHANGED <<loop, rafQueue, unconsumed>>
         ELSE LET l0 == [loop EXCEPT !.running = TRUE, !.lastTimestamp = now,
                                     !.accumulatedTime = DZero]
                  r == Tick(l0, rafQueue, now, 0, 0, renderThrows)
              IN  /\ loop' = r.self
                  /\ rafQueue' = r.queue
                  /\ unconsumed' = Unconsumed(DZero, r, loop.frameInterval)
                  /\ Did("start", r, loop.running)
    /\ UNCHANGED <<impl, frames, now, loop2, engine>>
    /\ UNCHANGED <<poolVars, collVars, geomVars, entVars, gsmVars>>

\* stop() on a loop that is not running changes nothing and is left out.
GameLoop_stop ==
    /\ impl = "GameLoop"
    /\ loop.running
    /\ LET s == StopLoop(loop, rafQueue)
       IN  /\ loop' = s.self
           /\ rafQueue' = s.queue
    /\ Did("stop", NoFrame, loop.running)
    /\ UNCHANGED <<impl, frames, now, loop2, engine, unconsumed>>
    /\ UNCHANGED <<poolVars, collVars, geomVars, entVars, gsmVars>>

\* The host delivers a requested frame, dt ms later: tick() runs.
GameLoop_tick ==
    /\ impl = "GameLoop"
    /\ \E id \in rafQueue, dt \in Deltas, throwAt \in 0..MaxThrowAt,
          stopAt \in 0..MaxStopAt, renderThrows \in BOOLEAN :
         LET r == Tick(loop, rafQueue \ {id}, now + dt, throwAt, stopAt,
                       renderThrows)
         IN  /\ now + dt <= MaxTime
             /\ frames < MaxFrames
             /\ frames' = frames + 1
             /\ DLeq(r.self.accumulatedTime, DVal(MaxAcc))
             /\ now' = now + dt
             /\ loop' = r.self
             /\ rafQueue' = r.queue
             /\ unconsumed' = Unconsumed(unconsumed, r, loop.frameInterval)
             /\ Did("frame", r, loop.running)
    /\ UNCHANGED <<impl, loop2, engine>>
    /\ UNCHANGED <<poolVars, collVars, geomVars, entVars, gsmVars>>

\* A setter that would assign the rate before it checks it.
RejectedFPSAssigned(l, newFPS) == [l EXCEPT !.targetFPS = newFPS]

\* Lines 134-136: the rate is checked before anything is assigned, so a
\* rejected call leaves the loop as it is.
RejectedFPS(l, newFPS) == l

GameLoop_setTargetFPS ==
    /\ impl = "GameLoop"
    /\ \E newFPS \in Rates :
         IF newFPS <= 0
         THEN /\ loop' = RejectedFPS(loop, newFPS)
              /\ Did("setTargetFPS",
                     [NoFrame EXCEPT !.raised = TRUE, !.arg = newFPS],
                     loop.running)
         ELSE /\ loop' = [loop EXCEPT !.targetFPS = newFPS,
                                      !.frameInterval = DStep(newFPS)]
              /\ Did("setTargetFPS", [NoFrame EXCEPT !.arg = newFPS],
                     loop.running)
    /\ UNCHANGED <<impl, frames, now, rafQueue, loop2, engine, unconsumed>>
    /\ UNCHANGED <<poolVars, collVars, geomVars, entVars, gsmVars>>


\* -------------------------------------- GameLoop (second class, gameLoop())
Step2 == DStep(DefaultTargetFPS)

\* Lines 241-244: the delta added to the accumulator for a raw delta.
Clamp2(raw) ==
    IF raw > DefaultMaxFrameTime THEN DVal(DefaultMaxFrameTime) ELSE DVal(raw)

\* Lines 250-253 with update() of lines 266-277: the callback runs only in
\* state PLAYING; when it throws, the error is logged, stop() is called and
\* the loop goes on.
RECURSIVE Drain2(_, _, _, _, _)
Drain2(l, n, calls, throwAt, stopAt) ==
    IF ~WhileCondition(l.accumulator, Step2, l.isRunning)
    THEN [self |-> l, n |-> n, calls |-> calls,
          threw |-> (throwAt > 0 /\ calls >= throwAt),
          stopped |-> Stopped(calls, stopAt)]
    ELSE LET playing == l.currentState = "PLAYING"
             c == IF playing THEN calls + 1 ELSE calls
             thr == playing /\ c = throwAt
             stp == playing /\ c = stopAt
             l1 == [l EXCEPT !.isRunning = IF thr \/ stp THEN FALSE ELSE @,
                             !.accumulator = DSub(@, Step2)]
         IN  Drain2(l1, n + 1, c, throwAt, stopAt)

GameLoop2Body(l, q, t, throwAt, stopAt, renderThrows) ==
    IF ~l.isRunning THEN [self |-> l, queue |-> q] @@ NoFrame
    ELSE LET raw == t - l.lastFrameTime
             eff == Clamp2(raw)
             l1 == [l EXCEPT !.lastFrameTime = t,
                             !.accumulator = DAdd(@, eff)]
             d == Drain2(l1, 0, 0, throwAt, stopAt)
             l2 == [d.self EXCEPT !.isRunning = IF renderThrows THEN FALSE ELSE @]
         IN  [self |-> l2, queue |-> q \cup {NewRafId(q, {})},
              steps |-> d.n, done |-> d.n, upd |-> d.calls, rend |-> 1,
              threw |-> (d.threw \/ renderThrows), raised |-> FALSE,
              raw |-> raw, eff |-> eff, ran |-> TRUE,
              paused |-> (l.currentState = "PAUSED"), arg |-> 0,
              threwAt |-> IF d.threw THEN throwAt ELSE 0,
              stoppedAt |-> IF d.stopped THEN stopAt ELSE 0]

\* Lines 196-204: start() seeds lastFrameTime and leaves the accumulator as
\* it is.
Start2Fields(l) == [l EXCEPT !.isRunning = TRUE, !.lastFrameTime = now]

GameLoop2_start ==
    /\ impl = "GameLoop2"
    /\ \E throwAt \in 0..MaxThrowAt, stopAt \in 0..MaxStopAt,
          renderThrows \in BOOLEAN :
         IF StartGuard(loop2.isRunning)
         THEN /\ Did("start", NoFrame, loop2.isRunning)
              /\ UNCHANGED <<loop2, rafQueue, unconsumed>>
         ELSE LET r == GameLoop2Body(Start2Fields(loop2), rafQueue, now, throwAt,
                                     stopAt, renderThrows)
              IN  /\ Cardinality(rafQueue) < MaxPending
                  /\ loop2' = r.self
                  /\ rafQueue' = r.queue
                  /\ unconsumed' = Unconsumed(DZero, r, Step2)
                  /\ Did("start", r, loop2.isRunning)
    /\ UNCHANGED <<impl, frames, now, loop, engine>>
    /\ UNCHANGED <<poolVars, collVars, geomVars, entVars, gsmVars>>

\* stop() on a loop that is not running changes nothing and is left out.
GameLoop2_stop ==
    /\ impl = "GameLoop2"
    /\ loop2.isRunning
    /\ loop2' = [loop2 EXCEPT !.isRunning = FALSE]
    /\ Did("stop", NoFrame, loop2.isRunning)
    /\ UNCHANGED <<impl, frames, now, rafQueue, loop, engine, unconsumed>>
    /\ UNCHANGED <<poolVars, collVars, geomVars, entVars, gsmVars>>

\* The host delivers a requested frame, dt ms later: gameLoop() runs.
GameLoop2_gameLoop ==
    /\ impl = "GameLoop2"
    /\ \E id \in rafQueue, dt \in Deltas, throwAt \in 0..MaxThrowAt,
          stopAt \in 0..MaxStopAt, renderThrows \in BOOLEAN :
         LET r == GameLoop2Body(loop2, rafQueue \ {id}, now + dt, throwAt,
                                  stopAt, renderThrows)
         IN  /\ now + dt <= MaxTime
             /\ frames < MaxFrames
             /\ frames' = frames + 1
             /\ now' = now + dt
             /\ loop2' = r.self
             /\ rafQueue' = r.queue
             /\ unconsumed' = Unconsumed(unconsumed, r, Step2)
             /\ Did("frame", r, loop2.isRunning)
    /\ UNCHANGED <<impl, loop, engine>>
    /\ UNCHANGED <<poolVars, collVars, geomVars, entVars, gsmVars>>

GameLoop2_setState ==
    /\ impl = "GameLoop2"
    /\ \E newState \in {"PLAYING", "GAME_OVER"} :
         loop2' = [loop2 EXCEPT !.currentState = newState]
    /\ Did("setState", NoFrame, loop2.isRunning)
    /\ UNCHANGED <<impl, frames, now, rafQueue, loop, engine, unconsumed>>
    /\ UNCHANGED <<poolVars, collVars, geomVars, entVars, gsmVars>>

GameLoop2_pause ==
    /\ impl = "GameLoop2"
    /\ loop2' = [loop2 EXCEPT !.currentState =
                    IF @ = "PLAYING" THEN "PAUSED" ELSE @]
    /\ Did("pause", NoFrame, loop2.isRunning)
    /\ UNCHANGED <<impl, frames, now, rafQueue, loop, engine, unconsumed>>
    /\ UNCHANGED <<poolVars, collVars, geomVars, entVars, gsmVars>>

GameLoop2_resume ==
    /\ impl = "GameLoop2"
    /\ loop2' = [loop2 EXCEPT !.currentState =
                    IF @ = "PAUSED" THEN "PLAYING" ELSE @]
    /\ Did("resume", NoFrame, loop2.isRunning)
    /\ UNCHANGED <<impl, frames, now, rafQueue, loop, engine, unconsumed>>
    /\ UNCHANGED <<poolVars, collVars, geomVars, entVars, gsmVars>>

\* -------------------------------------------------------------- GameEngine
FIXED_TIME_STEP == DStep(60)

\* Line 118: Math.min(deltaTime, maxDeltaTime).
ClampEngine(raw) ==
    IF raw < DefaultMaxDeltaTime THEN DVal(raw) ELSE DVal(DefaultMaxDeltaTime)

\* Lines 109-142; an exception of a callback leaves gameLoop() at once.
EngineBody(e, q, t, throwAt, stopAt, renderThrows) ==
    IF ~e.isRunning THEN [self |-> e, queue |-> q] @@ NoFrame
    ELSE LET id == NewRafId(q, {})
             raw == t - e.lastFrameTime
             eff == ClampEngine(raw)
             e1 == [e EXCEPT !.rafId = id]
             d == Drain(DAdd(e.accumulator, eff), FIXED_TIME_STEP, 0, throwAt,
                        stopAt)
             stopped == Stopped(d.n, stopAt)
             e2 == IF stopped
                   THEN [e1 EXCEPT !.accumulator = d.acc, !.rafId = 0,
                                   !.isRunning = FALSE]
                   ELSE [e1 EXCEPT !.accumulator = d.acc]
         IN  IF e.isPaused
             THEN [self |-> [e1 EXCEPT !.lastFrameTime = t],
                   queue |-> q \cup {id}]
                  @@ [NoFrame EXCEPT !.raw = raw, !.paused = TRUE]
             ELSE [self |-> IF d.threw \/ renderThrows THEN e2
                            ELSE [e2 EXCEPT !.lastFrameTime = t],
                   queue |-> IF stopped THEN q ELSE q \cup {id},
                   steps |-> d.n, done |-> IF d.threw THEN d.n - 1 ELSE d.n,
                   upd |-> d.n, rend |-> IF d.threw THEN 0 ELSE 1,
                   threw |-> (d.threw \/ renderThrows),
                   raised |-> (d.threw \/ renderThrows),
                   raw |-> raw, eff |-> eff, ran |-> TRUE, paused |-> FALSE,
                   arg |-> 0,
                   threwAt |-> IF d.threw THEN d.n ELSE 0,
                   stoppedAt |-> IF stopped THEN stopAt ELSE 0]

GameEngine_start ==
    /\ impl = "GameEngine"
    /\ IF StartGuard(engine.isRunning)
       THEN UNCHANGED <<engine, rafQueue, unconsumed>>
       ELSE LET id == NewRafId(rafQueue, {})
            IN  /\ engine' = [engine EXCEPT !.isRunning = TRUE,
                                            !.lastFrameTime = now, !.rafId = id]
                /\ rafQueue' = rafQueue \cup {id}
                /\ unconsumed' = DZero
    /\ Did("start", NoFrame, engine.isRunning)
    /\ UNCHANGED <<impl, frames, now, loop, loop2>>
    /\ UNCHANGED <<poolVars, collVars, geomVars, entVars, gsmVars>>

\* stop() on an engine that is not running changes nothing and is left out.
GameEngine_stop ==
    /\ impl = "GameEngine"
    /\ engine.isRunning
    /\ engine' = [engine EXCEPT !.rafId = 0, !.isRunning = FALSE]
    /\ rafQueue' = rafQueue \ {engine.rafId}
    /\ Did("stop", NoFrame, engine.isRunning)
    /\ UNCHANGED <<impl, frames, now, loop, loop2, unconsumed>>
    /\ UNCHANGED <<poolVars, collVars, geomVars, entVars, gsmVars>>

GameEngine_togglePause ==
    /\ impl = "GameEngine"
    /\ engine' = [engine EXCEPT !.isPaused = ~@]
    /\ Did("togglePause", NoFrame, engine.isRunning)
    /\ UNCHANGED <<impl, frames, now, rafQueue, loop, loop2, unconsumed>>
    /\ UNCHANGED <<poolVars, collVars, geomVars, entVars, gsmVars>>

\* The host delivers a requested frame, dt ms later: gameLoop(timestamp) runs.
GameEngine_gameLoop ==
    /\ impl = "GameEngine"
    /\ \E id \in rafQueue, dt \in Deltas, throwAt \in 0..MaxThrowAt,
          stopAt \in 0..MaxStopAt, renderThrows \in BOOLEAN :
         LET r == EngineBody(engine, rafQueue \ {id}, now + dt, throwAt,
                               stopAt, renderThrows)
         IN  /\ now + dt <= MaxTime
             /\ frames < MaxFrames
             /\ frames' = frames + 1
             /\ DLeq(r.self.accumulator, DVal(MaxAcc))
             /\ now' = now + dt
             /\ engine' = r.self
             /\ rafQueue' = r.queue
             /\ unconsumed' = Unconsumed(unconsumed, r, FIXED_TIME_STEP)
             /\ Did("frame", r, engine.isRunning)
    /\ UNCHANGED <<impl, loop, loop2>>
    /\ UNCHANGED <<poolVars, collVars, geomVars, entVars, gsmVars>>

\* ========================================================= geometric tests
\* Boxes and points the tests are called with.
Coords == {0, 5, 10}

Sizes == {5, 10}

PointCoords == {0, 5, 10, 15, 20}

Box(x, y, w, h) == [x |-> x, y |-> y, width |-> w, height |-> h]

Boxes == {Box(x, y, w, h) : x \in Coords, y \in Coords, w \in Sizes, h \in Sizes}

Max(a, b) == IF a >= b THEN a ELSE b

Min(a, b) == IF a <= b THEN a ELSE b

\* A box test that would count shared edges as overlap.
DetectCollisionInclusive(boxA, boxB) ==
    /\ boxA.x <= boxB.x + boxB.width
    /\ boxA.x + boxA.width >= boxB.x
    /\ boxA.y <= boxB.y + boxB.height
    /\ boxA.y + boxA.height >= boxB.y

\* A number field that holds NaN; every other field is a whole number.
NaN == -1000

\* a + b of two numbers.
NumAdd(a, b) == IF a = NaN \/ b = NaN THEN NaN ELSE a + b

\* a < b of two numbers (b > a likewise): false when either is NaN.
NumLess(a, b) == a # NaN /\ b # NaN /\ a < b

\* a <= b of two numbers (b >= a likewise): false when either is NaN.
NumLessEq(a, b) == a # NaN /\ b # NaN /\ a <= b

\* CollisionSystem.detectCollision on the two bounding boxes.
CollisionSystem_detectCollision(boxA, boxB) ==
    /\ NumLess(boxA.x, NumAdd(boxB.x, boxB.width))
    /\ NumLess(boxB.x, NumAdd(boxA.x, boxA.width))
    /\ NumLess(boxA.y, NumAdd(boxB.y, boxB.height))
    /\ NumLess(boxB.y, NumAdd(boxA.y, boxA.height))

\* CollisionDetector.detectCollision: the CollisionResult.
CollisionDetector_detectCollision(boxA, boxB) ==
    LET leftA == boxA.x
        rightA == NumAdd(boxA.x, boxA.width)
        topA == boxA.y
        bottomA == NumAdd(boxA.y, boxA.height)
        leftB == boxB.x
        rightB == NumAdd(boxB.x, boxB.width)
        topB == boxB.y
        bottomB == NumAdd(boxB.y, boxB.height)
    IN  IF /\ NumLess(leftA, rightB)
           /\ NumLess(leftB, rightA)
           /\ NumLess(topA, bottomB)
           /\ NumLess(topB, bottomA)
        THEN [hasCollision |-> TRUE,
              intersection |->
                  Box(Max(leftA, leftB), Max(topA, topB),
                      Min(rightA, rightB) - Max(leftA, leftB),
                      Min(bottomA, bottomB) - Max(topA, topB))]
        ELSE [hasCollision |-> FALSE]

\* Entity.getBounds of an entity with the given position and dimensions.
getBounds(b) ==
    [top |-> b.y, right |-> NumAdd(b.x, b.width),
     bottom |-> NumAdd(b.y, b.height), left |-> b.x]

\* A test that would look at one side of each axis only.
CollidesWithOneSided(b, o) ==
    LET bounds == getBounds(b)
        otherBounds == getBounds(o)
    IN  ~(bounds.left >= otherBounds.right \/ bounds.top >= otherBounds.bottom)

\* Entity.collidesWith of src/unnamed/part_004.
Entity_collidesWith(b, o) ==
    LET bounds == getBounds(b)
        otherBounds == getBounds(o)
    IN  ~(\/ NumLessEq(otherBounds.right, bounds.left)
          \/ NumLessEq(bounds.right, otherBounds.left)
          \/ NumLessEq(otherBounds.bottom, bounds.top)
          \/ NumLessEq(bounds.bottom, otherBounds.top))

\* Entity.collidesWith of src/unnamed/part_003, on position and dimensions.
Entity_collidesWith_part_003(b, o) ==
    /\ NumLess(b.x, NumAdd(o.x, o.width))
    /\ NumLess(o.x, NumAdd(b.x, b.width))
    /\ NumLess(b.y, NumAdd(o.y, o.height))
    /\ NumLess(o.y, NumAdd(b.y, b.height))

\* What an Entity can hold: its constructors and setters take any number.
EntityBoxes == Boxes \cup {Box(NaN, 0, 5, 5), Box(0, 0, NaN, 5)}

\* CollisionSystem.isPointColliding on the collidable's bounding box.
CollisionSystem_isPointColliding(x, y, box) ==
    /\ x >= box.x
    /\ x <= box.x + box.width
    /\ y >= box.y
    /\ y <= box.y + box.height

\* CollisionDetector.isPointInBox.
CollisionDetector_isPointInBox(point, box) ==
    /\ point.x >= box.x
    /\ point.x <= box.x + box.width
    /\ point.y >= box.y
    /\ point.y <= box.y + box.height

\* Velocities and time horizons predictCollision is called with.
VelXs == {-5, 0, 5}

VelYs == {0, 5}

Velocities == [vx : VelXs, vy : VelYs]

TimeFrames == {0, 1, 2}

\* A projection that would leave the coordinate where it is.
ProjectStays(p, v, timeFrame) == p

\* Lines 321-322 and 328-329: boxA.x + boxA.vx * timeFrame.
Project(p, v, timeFrame) == p + v * timeFrame

\* Lines 320-325: the box at its future position, its size kept.
FutureBox(box, vel, timeFrame) ==
    [x |-> Project(box.x, vel.vx, timeFrame),
     y |-> Project(box.y, vel.vy, timeFrame),
     width |-> box.width, height |-> box.height]

\* predictCollision(boxA, boxB, timeFrame), boxA being box a with the
\* velocity va and boxB box b with vb.
CollisionDetector_predictCollision(a, va, b, vb, timeFrame) ==
    CollisionDetector_detectCollision(FutureBox(a, va, timeFrame),
                                      FutureBox(b, vb, timeFrame)).hasCollision

NoQuery == [fn |-> "none", a |-> Box(0, 0, 0, 0), b |-> Box(0, 0, 0, 0),
            point |-> [x |-> 0, y |-> 0], result |-> FALSE,
            va |-> [vx |-> 0, vy |-> 0], vb |-> [vx |-> 0, vy |-> 0],
            timeFrame |-> 0]

GeomInit == query = NoQuery

\* The tests are pure functions of their arguments: a behaviour is one call.

Call_CollisionSystem_detectCollision ==
    /\ query = NoQuery
    /\ \E a \in Boxes, b \in Boxes :
         query' = [NoQuery EXCEPT !.fn = "CollisionSystem.detectCollision",
                                  !.a = a, !.b = b,
                                  !.result = CollisionSystem_detectCollision(a, b)]
    /\ UNCHANGED <<poolVars, schedVars, collVars, entVars, gsmVars>>

Call_CollisionDetector_detectCollision ==
    /\ query = NoQuery
    /\ \E a \in Boxes, b \in Boxes :
         query' = [NoQuery EXCEPT !.fn = "CollisionDetector.detectCollision",
                                  !.a = a, !.b = b,
                                  !.result = CollisionDetector_detectCollision(a, b)]
    /\ UNCHANGED <<poolVars, schedVars, collVars, entVars, gsmVars>>

Call_Entity_collidesWith ==
    /\ query = NoQuery
    /\ \E a \in EntityBoxes, b \in EntityBoxes :
         query' = [NoQuery EXCEPT !.fn = "Entity.collidesWith",
                                  !.a = a, !.b = b,
                                  !.result = Entity_collidesWith(a, b)]
    /\ UNCHANGED <<poolVars, schedVars, collVars, entVars, gsmVars>>

Call_Entity_collidesWith_part_003 ==
    /\ query = NoQuery
    /\ \E a \in EntityBoxes, b \in EntityBoxes :
         query' = [NoQuery EXCEPT !.fn = "Entity.collidesWith(part_003)",
                                  !.a = a, !.b = b,
                                  !.result = Entity_collidesWith_part_003(a, b)]
    /\ UNCHANGED <<poolVars, schedVars, collVars, entVars, gsmVars>>

Call_CollisionSystem_isPointColliding ==
    /\ query = NoQuery
    /\ \E x \in PointCoords, y \in PointCoords, box \in Boxes :
         query' = [NoQuery EXCEPT !.fn = "CollisionSystem.isPointColliding",
                                  !.a = box, !.point = [x |-> x, y |-> y],
                                  !.result =
                                      CollisionSystem_isPointColliding(x, y, box)]
    /\ UNCHANGED <<poolVars, schedVars, collVars, entVars, gsmVars>>

Call_CollisionDetector_isPointInBox ==
    /\ query = NoQuery
    /\ \E x \in PointCoords, y \in PointCoords, box \in Boxes :
         LET point == [x |-> x, y |-> y]
         IN  query' = [NoQuery EXCEPT !.fn = "CollisionDetector.isPointInBox",
                                      !.a = box, !.point = point,
                                      !.result =
                                          CollisionDetector_isPointInBox(point, box)]
    /\ UNCHANGED <<poolVars, schedVars, collVars, entVars, gsmVars>>

Call_CollisionDetector_predictCollision ==
    /\ query = NoQuery
    /\ \E a \in Boxes, b \in Boxes, va \in Velocities, vb \in Velocities,
          timeFrame \in TimeFrames :
         query' = [NoQuery EXCEPT !.fn = "CollisionDetector.predictCollision",
                                  !.a = a, !.b = b, !.va = va, !.vb = vb,
                                  !.timeFrame = timeFrame,
                                  !.result = CollisionDetector_predictCollision(
                                                 a, va, b, vb, timeFrame)]
    /\ UNCHANGED <<poolVars, schedVars, collVars, entVars, gsmVars>>

\* ========================================================= CollisionSystem
\* Entities are numbered 1..MaxEnts; 0 is null / undefined.
MaxEnts == 3

\* x positions entities are constructed at; every box is 10 wide and 10 high
\* at y = 0, so two entities overlap when they are at the same x and share
\* an edge when one is at 0 and the other at 10.
Xs == {0, 10}

EntBox(x) == Box(x, 0, 10, 10)

\* Where a "move" handler puts its entity: clear of every other box.
MovedBox == EntBox(30)

\* What onCollision of an entity does: "none" (the entity has no handler),
\* "log" (it changes nothing), "move" (it sets its own position),
\* "unregister" (it unregisters the other entity).
Handlers == {"none", "log", "move", "unregister"}

\* Set.add on the insertion-ordered Set collidables.
\* An add that would keep one entry per call.
SetAddEveryCall(regs, c) == Append(regs, c)

SetAdd(regs, c) == IF c \in Range(regs) THEN regs ELSE Append(regs, c)

\* A register that would ignore null without an error.
RegisterIgnoresNull(regs, c) ==
    IF c = 0 THEN [regs |-> regs, raised |-> FALSE]
    ELSE [regs |-> SetAdd(regs, c), raised |-> FALSE]

\* register(collidable): the registry afterwards and whether it threw.
Register(regs, c) ==
    IF c = 0 THEN [regs |-> regs, raised |-> TRUE]
    ELSE [regs |-> SetAdd(regs, c), raised |-> FALSE]

\* Lines 75-80: call onCollision of self, if it has one, with other.
Dispatch(st, self, other) ==
    LET h == st.ents[self].handler
    IN  IF h = "none" THEN st
        ELSE [ents |-> IF h = "move"
                       THEN [st.ents EXCEPT ![self].box = MovedBox]
                       ELSE st.ents,
              regs |-> IF h = "unregister" THEN SeqDelete(st.regs, other)
                       ELSE st.regs,
              log |-> Append(st.log, <<self, other>>)]

\* An inner loop that would start at the first element.
InnerStartFromFirst(i) == 1

\* Line 72: the inner loop starts behind the outer index.
InnerStart(i) == i + 1

\* Lines 71-83: the two loops over the snapshot collidableArray, testing
\* each pair when its turn comes, on the boxes the entities have then.
RECURSIVE CheckPairs(_, _, _, _)
CheckPairs(collidableArray, i, j, st) ==
    IF i > Len(collidableArray) THEN st
    ELSE IF j > Len(collidableArray)
         THEN CheckPairs(collidableArray, i + 1, InnerStart(i + 1), st)
         ELSE LET a == collidableArray[i]
                  b == collidableArray[j]
                  hit == CollisionSystem_detectCollision(st.ents[a].box,
                                                         st.ents[b].box)
                  st1 == IF hit THEN Dispatch(Dispatch(st, a, b), b, a)
                         ELSE st
              IN  CheckPairs(collidableArray, i, j + 1, st1)

CollInit ==
    /\ ents \in [1..MaxEnts -> [box : {EntBox(x) : x \in Xs}, active : {TRUE},
                                handler : Handlers]]
    /\ collidables = <<>>
    /\ collOp = "constructor"
    /\ collRaised = FALSE
    /\ notified = <<>>

CollisionSystem_register ==
    /\ \E c \in 0..MaxEnts :
         LET r == Register(collidables, c)
         IN  /\ collidables' = r.regs
             /\ collRaised' = r.raised
             /\ collOp' = IF c = 0 THEN "register(null)"
                          ELSE IF c \in Range(collidables)
                               THEN "register(again)"
                               ELSE "register"
    /\ notified' = <<>>
    /\ UNCHANGED <<ents>>
    /\ UNCHANGED <<poolVars, schedVars, geomVars, entVars, gsmVars>>

CollisionSystem_unregister ==
    /\ \E c \in 1..MaxEnts : collidables' = SeqDelete(collidables, c)
    /\ collOp' = "unregister"
    /\ collRaised' = FALSE
    /\ notified' = <<>>
    /\ UNCHANGED <<ents>>
    /\ UNCHANGED <<poolVars, schedVars, geomVars, entVars, gsmVars>>

CollisionSystem_checkCollisions ==
    /\ LET st == CheckPairs(collidables, 1, InnerStart(1),
                            [ents |-> ents, regs |-> collidables, log |-> <<>>])
       IN  /\ ents' = st.ents
           /\ collidables' = st.regs
           /\ notified' = st.log
    /\ collOp' = "checkCollisions"
    /\ collRaised' = FALSE
    /\ UNCHANGED <<poolVars, schedVars, geomVars, entVars, gsmVars>>

CollisionSystem_clear ==
    /\ collidables' = <<>>
    /\ collOp' = "clear"
    /\ collRaised' = FALSE
    /\ notified' = <<>>
    /\ UNCHANGED <<ents>>
    /\ UNCHANGED <<poolVars, schedVars, geomVars, entVars, gsmVars>>

\* The setter of Entity.active.
Entity_setActive ==
    /\ \E e \in 1..MaxEnts, value \in BOOLEAN :
         ents' = [ents EXCEPT ![e].active = value]
    /\ collOp' = "setActive"
    /\ collRaised' = FALSE
    /\ notified' = <<>>
    /\ UNCHANGED <<collidables>>
    /\ UNCHANGED <<poolVars, schedVars, geomVars, entVars, gsmVars>>

\* ================================================================== Entity
\* The base class Entity of src/unnamed/part_003.  Coordinates, velocities
\* and elapsed times are whole numbers, so that position + velocity *
\* deltaTime is exact.
MaxPos == 20

Positions == {[x |-> x, y |-> y] : x \in {0, 10}, y \in {0}}

EntVelocities == {[x |-> x, y |-> y] : x \in {-10, 0, 10}, y \in {0, 10}}

\* Widths and heights a caller passes; { width: 0, height: 0 } is the
\* constructor's default.
Lengths == {-10, 0, 10}

DimensionsSet == [width : Lengths, height : Lengths]

DefaultDimensions == [width |-> 0, height |-> 0]

DeltaTimes == {0, 1}

\* Lines 38-48: the fields after new Entity(position, dimensions, velocity).
Entity_constructor(position, dimensions, velocity) ==
    [position |-> position, dimensions |-> dimensions, velocity |-> velocity,
     active |-> TRUE]

EntInit ==
    /\ \E position \in Positions,
          dimensions \in {DefaultDimensions, [width |-> 10, height |-> 10]},
          velocity \in {[x |-> 0, y |-> 0]} :
         entity = Entity_constructor(position, dimensions, velocity)
    /\ entOp = "constructor"

Entity_update ==
    /\ \E deltaTime \in DeltaTimes :
         LET x == entity.position.x + entity.velocity.x * deltaTime
             y == entity.position.y + entity.velocity.y * deltaTime
         IN  /\ x \in (-MaxPos)..MaxPos
             /\ y \in (-MaxPos)..MaxPos
             /\ entity' = [entity EXCEPT !.position = [x |-> x, y |-> y]]
    /\ entOp' = "update"
    /\ UNCHANGED <<poolVars, schedVars, collVars, geomVars, gsmVars>>

Entity_set_position ==
    /\ \E newPosition \in Positions :
         entity' = [entity EXCEPT !.position = newPosition]
    /\ entOp' = "set position"
    /\ UNCHANGED <<poolVars, schedVars, collVars, geomVars, gsmVars>>

Entity_set_velocity ==
    /\ \E newVelocity \in EntVelocities :
         entity' = [entity EXCEPT !.velocity = newVelocity]
    /\ entOp' = "set velocity"
    /\ UNCHANGED <<poolVars, schedVars, collVars, geomVars, gsmVars>>

Entity_set_dimensions ==
    /\ \E newDimensions \in DimensionsSet :
         entity' = [entity EXCEPT !.dimensions = newDimensions]
    /\ entOp' = "set dimensions"
    /\ UNCHANGED <<poolVars, schedVars, collVars, geomVars, gsmVars>>

Entity_set_active ==
    /\ \E value \in BOOLEAN : entity' = [entity EXCEPT !.active = value]
    /\ entOp' = "set active"
    /\ UNCHANGED <<poolVars, schedVars, collVars, geomVars, gsmVars>>

\* ======================================================== GameStateManager
\* Scores are whole numbers; the model stops counting at these values.
MaxScore == 40

MaxLevel == 3

MinLives == 0

GameStates == {"MENU", "PLAYING", "PAUSED", "GAME_OVER", "LEVEL_COMPLETE"}

\* Points addScore is called with.
Points == {0, 10, 20}

\* localStorage.getItem('highScore') when nothing was saved.
NoItem == -1

\* Lines 56-67: getInitialStats().
getInitialStats == [score |-> 0, highScore |-> 0, level |-> 1, lives |-> 3]

\* Lines 72-81: loadHighScore() on the stats, given the stored item.
loadHighScore(stats, item) ==
    IF item # NoItem THEN [stats EXCEPT !.highScore = item] ELSE stats

\* An addScore that would never touch the high score.
HighScoreKept(score, highScore) == highScore

\* Lines 99-101: the high score after the score has been raised.
HighScoreAfter(score, highScore) ==
    IF score > highScore THEN score ELSE highScore

\* Lines 122-127: setState(newState).
SetStateOf(g, newState) == [g EXCEPT !.currentState = newState]

\* Lines 38-41: the constructor, with whatever an earlier session saved.
GsmInit ==
    /\ storage \in {NoItem, 10, 20}
    /\ gsm = [currentState |-> "MENU",
              stats |-> loadHighScore(getInitialStats, storage)]
    /\ gsmOp = "constructor"

GameStateManager_addScore ==
    /\ \E points \in Points :
         LET score == gsm.stats.score + points
             highScore == HighScoreAfter(score, gsm.stats.highScore)
         IN  /\ score <= MaxScore
             /\ gsm' = [gsm EXCEPT !.stats.score = score,
                                   !.stats.highScore = highScore]
             /\ storage' = IF score > gsm.stats.highScore THEN highScore
                           ELSE storage
    /\ gsmOp' = "addScore"
    /\ UNCHANGED <<poolVars, schedVars, collVars, geomVars, entVars>>

GameStateManager_setState ==
    /\ \E newState \in GameStates : gsm' = SetStateOf(gsm, newState)
    /\ gsmOp' = "setState"
    /\ UNCHANGED <<storage>>
    /\ UNCHANGED <<poolVars, schedVars, collVars, geomVars, entVars>>

GameStateManager_incrementLevel ==
    /\ gsm.stats.level < MaxLevel
    /\ gsm' = [gsm EXCEPT !.stats.level = @ + 1]
    /\ gsmOp' = "incrementLevel"
    /\ UNCHANGED <<storage>>
    /\ UNCHANGED <<poolVars, schedVars, collVars, geomVars, entVars>>

GameStateManager_decrementLives ==
    /\ gsm.stats.lives > MinLives
    /\ LET g == [gsm EXCEPT !.stats.lives = @ - 1]
       IN  gsm' = IF g.stats.lives <= 0 THEN SetStateOf(g, "GAME_OVER") ELSE g
    /\ gsmOp' = "decrementLives"
    /\ UNCHANGED <<storage>>
    /\ UNCHANGED <<poolVars, schedVars, collVars, geomVars, entVars>>

\* Lines 200-204: stats is replaced first, and getStats() then reads the
\* stats just assigned.
GameStateManager_resetGame ==
    /\ LET stats1 == getInitialStats
           stats2 == [stats1 EXCEPT !.highScore = stats1.highScore]
       IN  gsm' = SetStateOf([gsm EXCEPT !.stats = stats2], "PLAYING")
    /\ gsmOp' = "resetGame"
    /\ UNCHANGED <<storage>>
    /\ UNCHANGED <<poolVars, schedVars, collVars, geomVars, entVars>>

\* ---------------------------------------------------------- specifications
\* The pool alone: no scheduler is instantiated.
SchedIdle ==
    /\ impl = "none"
    /\ now = 0
    /\ rafQueue = {}
    /\ frames = 0
    /\ loop = [running |-> FALSE, lastTimestamp |-> 0,
               targetFPS |-> DefaultTargetFPS,
               frameInterval |-> DStep(DefaultTargetFPS),
               accumulatedTime |-> DZero, animationFrameId |-> 0]
    /\ loop2 = [lastFrameTime |-> 0, isRunning |-> FALSE, accumulator |-> DZero,
                currentState |-> "INIT"]
    /\ engine = [isPaused |-> FALSE, isRunning |-> FALSE, lastFrameTime |-> 0,
                 rafId |-> 0, accumulator |-> DZero]
    /\ op = "constructor"
    /\ steps = 0
    /\ updCalls = 0
    /\ rendCalls = 0
    /\ threw = FALSE
    /\ raised = FALSE
    /\ rawDelta = 0
    /\ effDelta = DZero
    /\ wasRunning = FALSE
    /\ pausedFrame = FALSE
    /\ arg = 0
    /\ threwAt = 0
    /\ stoppedAt = 0
    /\ unconsumed = DZero

\* The schedulers alone: an empty pool that is never used.
PoolIdle ==
    /\ pool = <<>>
    /\ activeObjects = <<>>
    /\ maxSize = 0
    /\ created = 0
    /\ poolOp = "constructor"
    /\ poolRet = "void"
    /\ poolArg = 0
    /\ acquired = 0
    /\ factoryCalls = 0
    /\ resets = <<>>
    /\ tally = <<0, 0>>
    /\ resetsSinceActive = [o \in 1..MaxObjs |-> NeverActive]

\* No GameStateManager is constructed.
GsmIdle ==
    /\ storage = NoItem
    /\ gsm = [currentState |-> "MENU", stats |-> getInitialStats]
    /\ gsmOp = "constructor"

\* No Entity of part_003 is under test.
EntIdle ==
    /\ entity = Entity_constructor([x |-> 0, y |-> 0],
                                   [width |-> 10, height |-> 10],
                                   [x |-> 0, y |-> 0])
    /\ entOp = "constructor"

\* No collision system and no entity.
CollIdle ==
    /\ ents = <<>>
    /\ collidables = <<>>
    /\ collOp = "constructor"
    /\ collRaised = FALSE
    /\ notified = <<>>

InitPool == PoolInit /\ SchedIdle /\ CollIdle /\ GeomInit /\ EntIdle /\ GsmIdle

NextPool ==
    \/ acquire
    \/ release
    \/ releaseAll
    \/ clear
    \/ warmup
    \/ trim

SpecPool == InitPool /\ [][NextPool]_vars

InitSched == SchedInit /\ PoolIdle /\ CollIdle /\ GeomInit /\ EntIdle /\ GsmIdle

NextSched ==
    \/ Advance
    \/ GameLoop_start
    \/ GameLoop_stop
    \/ GameLoop_tick
    \/ GameLoop_setTargetFPS
    \/ GameLoop2_start
    \/ GameLoop2_stop
    \/ GameLoop2_gameLoop
    \/ GameLoop2_setState
    \/ GameLoop2_pause
    \/ GameLoop2_resume
    \/ GameEngine_start
    \/ GameEngine_stop
    \/ GameEngine_togglePause
    \/ GameEngine_gameLoop

SpecSched == InitSched /\ [][NextSched]_vars

InitColl == CollInit /\ PoolIdle /\ SchedIdle /\ GeomInit /\ EntIdle /\ GsmIdle

NextColl ==
    \/ CollisionSystem_register
    \/ CollisionSystem_unregister
    \/ CollisionSystem_checkCollisions
    \/ CollisionSystem_clear
    \/ Entity_setActive

SpecColl == InitColl /\ [][NextColl]_vars

InitGeom == GeomInit /\ PoolIdle /\ SchedIdle /\ CollIdle /\ EntIdle /\ GsmIdle

NextGeom ==
    \/ Call_CollisionSystem_detectCollision
    \/ Call_CollisionDetector_detectCollision
    \/ Call_Entity_collidesWith
    \/ Call_Entity_collidesWith_part_003
    \/ Call_CollisionSystem_isPointColliding
    \/ Call_CollisionDetector_isPointInBox
    \/ Call_CollisionDetector_predictCollision

SpecGeom == InitGeom /\ [][NextGeom]_vars

\* One Entity: the constructor, update and the setters.
InitEnt == EntInit /\ PoolIdle /\ SchedIdle /\ CollIdle /\ GeomInit /\ GsmIdle

NextEnt ==
    \/ Entity_update
    \/ Entity_set_position
    \/ Entity_set_velocity
    \/ Entity_set_dimensions
    \/ Entity_set_active

SpecEnt == InitEnt /\ [][NextEnt]_vars

\* The GameStateManager singleton.
InitGsm ==
    GsmInit /\ PoolIdle /\ SchedIdle /\ CollIdle /\ GeomInit /\ EntIdle

NextGsm ==
    \/ GameStateManager_addScore
    \/ GameStateManager_setState
    \/ GameStateManager_incrementLevel
    \/ GameStateManager_decrementLives
    \/ GameStateManager_resetGame

SpecGsm == InitGsm /\ [][NextGsm]_vars

\* ================================================================== claims
\* The fields of the scheduler under test, whichever class it is.
Running ==
    CASE impl = "GameLoop" -> loop.running
      [] impl = "GameLoop2" -> loop2.isRunning
      [] impl = "GameEngine" -> engine.isRunning
      [] OTHER -> FALSE

Accumulator ==
    CASE impl = "GameLoop" -> loop.accumulatedTime
      [] impl = "GameLoop2" -> loop2.accumulator
      [] impl = "GameEngine" -> engine.accumulator
      [] OTHER -> DZero

LastTimestamp ==
    CASE impl = "GameLoop" -> loop.lastTimestamp
      [] impl = "GameLoop2" -> loop2.lastFrameTime
      [] impl = "GameEngine" -> engine.lastFrameTime
      [] OTHER -> 0

\* Two doubles that differ by accumulated rounding error only (well below
\* 1e-11 ms).
RoundingSlack == 2^15

Near(a, b) ==
    /\ a[1] = b[1]
    /\ a[2] - b[2] <= RoundingSlack
    /\ b[2] - a[2] <= RoundingSlack

\* ---- C1
\* C1: after every ObjectPool operation no instance is both in the free list
\* (pool) and in the active set (activeObjects).
C1_PoolDisjoint == Range(pool) \cap Range(activeObjects) = {}

\* A release has moved an instance to the free list while another is active.
C1_Witness ==
    /\ poolOp = "release"
    /\ poolRet = "true"
    /\ pool # <<>>
    /\ activeObjects # <<>>

\* ---- C2
\* C2: in GameLoop.tick and GameLoop.gameLoop, after every start() and every
\* frame, the time of the update calls that returned plus the accumulator
\* equals the effective deltas added since the last start(), up to
\* floating-point rounding: what the deltas leave unconsumed is what the
\* accumulator holds.
C2_TimeConservation ==
    (impl \in {"GameLoop", "GameLoop2"} /\ op \in {"start", "frame"})
        => Near(Accumulator, unconsumed)

\* The same statement for the first class alone.
TickTimeConservation ==
    (impl = "GameLoop" /\ op \in {"start", "frame"})
        => Near(Accumulator, unconsumed)

C4_PanicFrameOneUpdate ==
    (impl = "GameLoop" /\ op = "frame" /\ rawDelta > DefaultPanicThreshold)
        => steps = 1

\* C4 amended: a frame of GameLoop.tick whose raw delta exceeds panicThreshold
\* fires exactly one update call when the accumulator held less than one
\* fixed step at the start of the frame.
C4_PanicFrameOneUpdateBelowStep ==
    [][(/\ impl = "GameLoop"
        /\ op' = "frame"
        /\ rawDelta' > DefaultPanicThreshold
        /\ DLess(loop.accumulatedTime, loop.frameInterval))
          => steps' = 1]_vars

\* A panic frame that found a non-empty accumulator and fired one update.
C4_Witness ==
    /\ impl = "GameLoop"
    /\ op = "frame"
    /\ frames >= 2
    /\ rawDelta > DefaultPanicThreshold
    /\ steps = 1
    /\ DLess(DVal(1), loop.accumulatedTime)

\* ---- C5
\* C5: with a fixed step of 1000/60 ms and an empty accumulator, one 50 ms
\* frame of GameLoop.tick in which no callback throws fires exactly two
\* update calls and leaves about one fixed step, but less than one, in the
\* accumulator.
C5_FiftyMsTwoUpdates ==
    [][(/\ impl = "GameLoop"
        /\ op' = "frame"
        /\ loop.running
        /\ loop.frameInterval = DStep(60)
        /\ loop.accumulatedTime = DZero
        /\ rawDelta' = 50
        /\ ~raised')
          => /\ steps' = 2
             /\ updCalls' = 2
             /\ Near(loop'.accumulatedTime, DStep(60))
             /\ DLess(loop'.accumulatedTime, DStep(60))]_vars

\* The first frame after start(), 50 ms later, at 60 Hz: two update calls.
C5_Witness ==
    /\ impl = "GameLoop"
    /\ op = "frame"
    /\ frames = 1
    /\ now = 50
    /\ rawDelta = 50
    /\ loop.frameInterval = DStep(60)
    /\ steps = 2
    /\ ~raised

\* ---- C6
\* C6: in GameLoop.tick and GameEngine.gameLoop every frame delivered to a
\* running loop in which no callback throws calls render() exactly once.
C6_RenderOncePerFrame ==
    (impl \in {"GameLoop", "GameEngine"} /\ op = "frame" /\ wasRunning /\ ~threw)
        => rendCalls = 1

\* ---- C7
\* C7: when an update or render callback throws, the loop is Stopped after the
\* operation (not running, no frame request pending) and the exception has
\* reached the caller.
C7_FailureStops ==
    (op \in {"start", "frame"} /\ threw)
        => (~Running /\ rafQueue = {} /\ raised)

\* ---- C8
\* C8: after stop() the loop is not running and no frame request is pending.
C8_StopLeavesNoFrame == (op = "stop") => (~Running /\ rafQueue = {})

\* ---- C9
\* C9: after start() on a loop of GameLoop.ts that was not running, and whose
\* callbacks did not throw and did not call stop(), the loop is running, the
\* accumulator is 0 and the last timestamp is the present time.
C9_StartResets ==
    (/\ impl \in {"GameLoop", "GameLoop2"}
     /\ op = "start" /\ ~wasRunning /\ ~threw /\ stoppedAt = 0)
        => (Running /\ Accumulator = DZero /\ LastTimestamp = now)

\* ---- C10
\* C10: start() on a running loop changes no field of the loop, calls no
\* callback and requests no frame.
C10_StartWhileRunningNoOp ==
    [][(op' = "start" /\ Running)
          => /\ loop' = loop
             /\ loop2' = loop2
             /\ engine' = engine
             /\ rafQueue' = rafQueue
             /\ updCalls' = 0
             /\ rendCalls' = 0
             /\ ~raised']_vars

\* start() was called on a running loop that held time in its accumulator.
C10_Witness ==
    /\ op = "start"
    /\ wasRunning
    /\ Running
    /\ rafQueue # {}
    /\ Accumulator # DZero

\* The scheduler under test is Paused: state PAUSED of the second GameLoop
\* class, isPaused of GameEngine.
Paused ==
    CASE impl = "GameLoop2" -> loop2.currentState = "PAUSED"
      [] impl = "GameEngine" -> engine.isPaused
      [] OTHER -> FALSE

FixedStep ==
    CASE impl = "GameLoop" -> loop.frameInterval
      [] impl = "GameLoop2" -> Step2
      [] OTHER -> FIXED_TIME_STEP

\* ---- C11
\* C11: in GameLoop.gameLoop and GameEngine.gameLoop a frame delivered while
\* the loop is Paused calls no update callback and still moves the last
\* timestamp to the present; the first frame after the pause measures its
\* delta from the last frame consumed during the pause, starts with less than
\* one fixed step in the accumulator, and so calls update no more often than
\* that carry-over plus its own clamped delta allows.
C11_NoTimeDebtAfterPause ==
    [][(impl \in {"GameLoop2", "GameEngine"} /\ op' = "frame" /\ Running)
          => IF Paused
             THEN updCalls' = 0 /\ LastTimestamp' = now'
             ELSE pausedFrame
                    => /\ rawDelta' = now' - now
                       /\ DLess(Accumulator, FixedStep)
                       /\ updCalls' * FixedStep[1]
                             <= Accumulator[1] + effDelta'[1]]_vars

\* The same statement for the second GameLoop class alone.
GameLoop2NoTimeDebtAfterPause ==
    [][(impl = "GameLoop2" /\ op' = "frame" /\ Running)
          => IF Paused
             THEN updCalls' = 0 /\ LastTimestamp' = now'
             ELSE pausedFrame
                    => /\ rawDelta' = now' - now
                       /\ DLess(Accumulator, FixedStep)
                       /\ updCalls' * FixedStep[1]
                             <= Accumulator[1] + effDelta'[1]]_vars

\* ---- C12
\* C12: pause() outside state PLAYING and resume() outside state PAUSED leave
\* the second GameLoop class unchanged, and togglePause() on a GameEngine
\* that is not running leaves the engine unchanged.
C12_PauseResumeOnlyWhenValid ==
    [][/\ (op' = "pause" /\ loop2.currentState # "PLAYING") => loop2' = loop2
       /\ (op' = "resume" /\ loop2.currentState # "PAUSED") => loop2' = loop2
       /\ (op' = "togglePause" /\ ~engine.isRunning) => engine' = engine]_vars

\* The same statement for pause() and resume() of the second GameLoop class.
GameLoop2PauseResumeOnlyWhenValid ==
    [][/\ (op' = "pause" /\ loop2.currentState # "PLAYING") => loop2' = loop2
       /\ (op' = "resume" /\ loop2.currentState # "PAUSED")
             => loop2' = loop2]_vars

\* ---- C13
\* C13: setTargetFPS(hz) with hz <= 0 raises an error and leaves the loop,
\* targetFPS and the fixed step included, unchanged; with hz > 0 it raises
\* nothing, stores hz and sets the fixed step to 1000/hz.
C13_SetTargetFPS ==
    [][op' = "setTargetFPS"
          => IF arg' <= 0
             THEN raised' /\ loop' = loop
             ELSE /\ ~raised'
                  /\ loop'.targetFPS = arg'
                  /\ Near(DTimes(arg', loop'.frameInterval), DVal(1000))
                  /\ loop' = [loop EXCEPT !.targetFPS = loop'.targetFPS,
                                          !.frameInterval =
                                              loop'.frameInterval]]_vars

\* A rate of 0 or less was rejected on a loop that runs at 120 Hz.
C13_Witness ==
    /\ op = "setTargetFPS"
    /\ arg <= 0
    /\ raised
    /\ loop.targetFPS = 120
    /\ loop.frameInterval = DStep(120)

\* The intersection of two boxes has positive width and positive height.
PositiveIntersection(p, q) ==
    /\ Min(p.x + p.width, q.x + q.width) > Max(p.x, q.x)
    /\ Min(p.y + p.height, q.y + q.height) > Max(p.y, q.y)

\* How often x occurs in the sequence seq.
Count(seq, x) == Cardinality({k \in 1..Len(seq) : seq[k] = x})

Registered == Range(collidables)

\* ---- C14
\* C14: a checkCollisions() pass in which no registered handler moves an
\* entity throws nothing and calls a.onCollision(b) exactly once for every
\* ordered pair of distinct registered entities a, b whose boxes overlap and
\* where a has a handler, and never otherwise; so both sides of an
\* overlapping pair are notified once each, and an entity without a handler
\* does not keep its partner from being notified.
C14_EachPairOnce ==
    [][(/\ collOp' = "checkCollisions"
        /\ \A c \in Registered : ents[c].handler # "move")
          => /\ ~collRaised'
             /\ \A a \in 1..MaxEnts, b \in 1..MaxEnts :
                  Count(notified', <<a, b>>) =
                      IF /\ a # b
                         /\ a \in Registered
                         /\ b \in Registered
                         /\ PositiveIntersection(ents[a].box, ents[b].box)
                         /\ ents[a].handler # "none"
                      THEN 1 ELSE 0]_vars

\* A pass over three entities, one pair apart, in which an entity without a
\* handler overlapped one with a handler, and that one was notified.
C14_Witness ==
    /\ collOp = "checkCollisions"
    /\ Len(collidables) = MaxEnts
    /\ \A c \in Registered : ents[c].handler \in {"none", "log"}
    /\ \E a \in Registered, b \in Registered :
         /\ ents[a].handler = "none"
         /\ <<b, a>> \in Range(notified)
    /\ \E a \in Registered, b \in Registered :
         ~PositiveIntersection(ents[a].box, ents[b].box)

\* ---- C15
\* C15: checkCollisions() never calls onCollision on or with an entity whose
\* active flag is false.
C15_OnlyActiveNotified ==
    (collOp = "checkCollisions")
        => \A k \in 1..Len(notified) :
              ents[notified[k][1]].active /\ ents[notified[k][2]].active

\* ---- C16
\* C16: the onCollision calls of one checkCollisions() pass are exactly those
\* of the pairs that overlapped when the pass began, whatever the handlers do
\* during the pass.
C16_PairsFixedAtStart ==
    [][collOp' = "checkCollisions"
          => Range(notified') =
                {<<a, b>> \in Registered \X Registered :
                    /\ a # b
                    /\ PositiveIntersection(ents[a].box, ents[b].box)
                    /\ ents[a].handler # "none"}]_vars

\* ---- C17
QueryHit ==
    IF query.fn = "CollisionDetector.detectCollision"
    THEN query.result.hasCollision
    ELSE query.result

\* C17: CollisionSystem.detectCollision and CollisionDetector.detectCollision
\* report an overlap iff a.left < b.right, a.right > b.left, a.top < b.bottom
\* and a.bottom > b.top, which is iff the intersection of the boxes has
\* positive area; boxes that share only an edge or a corner do not collide.
C17_StrictOverlap ==
    (query.fn \in {"CollisionSystem.detectCollision",
                   "CollisionDetector.detectCollision"})
        => LET a == query.a
               b == query.b
           IN  /\ QueryHit = (/\ a.x < b.x + b.width
                              /\ a.x + a.width > b.x
                              /\ a.y < b.y + b.height
                              /\ a.y + a.height > b.y)
               /\ QueryHit = PositiveIntersection(a, b)
               /\ (\/ a.x + a.width = b.x
                   \/ b.x + b.width = a.x
                   \/ a.y + a.height = b.y
                   \/ b.y + b.height = a.y) => ~QueryHit

\* The boxes {0,0,10,10} and {10,0,10,10} were tested: no collision.
C17_Witness ==
    /\ query.fn = "CollisionSystem.detectCollision"
    /\ query.a = Box(0, 0, 10, 10)
    /\ query.b = Box(10, 0, 10, 10)
    /\ ~query.result

\* ---- C18
\* C18: each of the three box tests gives the same answer for (a, b) as for
\* (b, a).
C18_OverlapSymmetric ==
    /\ (query.fn = "CollisionSystem.detectCollision")
          => query.result = CollisionSystem_detectCollision(query.b, query.a)
    /\ (query.fn = "CollisionDetector.detectCollision")
          => query.result.hasCollision =
                CollisionDetector_detectCollision(query.b, query.a).hasCollision
    /\ (query.fn = "Entity.collidesWith")
          => query.result = Entity_collidesWith(query.b, query.a)

\* Entity.collidesWith found two boxes of different size to overlap.
C18_Witness ==
    /\ query.fn = "Entity.collidesWith"
    /\ query.result
    /\ query.a.width # query.b.width
    /\ query.a.x # query.b.x

\* ---- C19
\* C19: a point on the right or bottom boundary of a box (x = box.x + width
\* or y = box.y + height) is not contained in it, for isPointColliding and
\* for isPointInBox.
C19_PointHalfOpen ==
    (/\ query.fn \in {"CollisionSystem.isPointColliding",
                      "CollisionDetector.isPointInBox"}
     /\ \/ query.point.x = query.a.x + query.a.width
        \/ query.point.y = query.a.y + query.a.height)
        => ~query.result

\* ---- C20
\* C20: register(null) and register(undefined) throw and leave the registry,
\* and so getCollidableCount(), as it was.
C20_RegisterNullRejected ==
    [][collOp' = "register(null)"
          => /\ collRaised'
             /\ collidables' = collidables
             /\ Len(collidables') = Len(collidables)]_vars

\* null was rejected by a registry that holds entities.
C20_Witness ==
    /\ collOp = "register(null)"
    /\ collRaised
    /\ Len(collidables) >= 2

\* ================================================== ObjectPool operations
Active == Range(activeObjects)

\* s is the beginning of t.
IsPrefix(s, t) == Len(s) <= Len(t) /\ SubSeq(t, 1, Len(s)) = s

\* ---- C21
\* C21: acquire() returns the last instance of the free list when the free
\* list is not empty, without calling factory(); it calls factory() once,
\* and returns the new instance, only when the free list is empty.  The
\* returned instance is in the active set afterwards and was not in it
\* before the call.
C21_AcquireSource ==
    [][poolOp' = "acquire"
          => /\ (Len(pool) > 0)
                   => /\ acquired' = pool[Len(pool)]
                      /\ pool' = SubSeq(pool, 1, Len(pool) - 1)
                      /\ factoryCalls' = 0
                      /\ created' = created
             /\ (Len(pool) = 0)
                   => /\ factoryCalls' = 1
                      /\ created' = created + 1
                      /\ acquired' = created'
                      /\ pool' = pool
             /\ acquired' \in Range(activeObjects')
             /\ acquired' \notin Active]_vars

\* acquire() reused a pooled instance while another instance was active.
C21_Witness ==
    /\ poolOp = "acquire"
    /\ factoryCalls = 0
    /\ acquired \in Active
    /\ Len(activeObjects) >= 2

\* ---- C22
\* C22: release(obj) of an obj that is not in the active set returns false,
\* applies reset to nothing and leaves the free list and the active set as
\* they were.
C22_ReleaseInactiveRejected ==
    [][(poolOp' = "release" /\ poolArg' \notin Active)
          => /\ poolRet' = "false"
             /\ resets' = <<>>
             /\ pool' = pool
             /\ activeObjects' = activeObjects]_vars

\* An instance that is already back in the free list was released again,
\* below the capacity of the free list.
C22_Witness ==
    /\ poolOp = "release"
    /\ poolRet = "false"
    /\ resets = <<>>
    /\ poolArg \in Range(pool)
    /\ Len(pool) < maxSize

\* ---- C23
\* C23: release(obj) of an active obj removes it from the active set, applies
\* reset to it once, and appends it to the free list exactly when the free
\* list is shorter than maxSize at that moment; otherwise the free list is
\* unchanged.  After three acquires and the release of those three instances
\* on a new pool with maxSize = 2, the free list has length 2 and the active
\* set is empty.
C23_ReleaseActive ==
    [][(poolOp' = "release" /\ poolArg' \in Active)
          => /\ activeObjects' = SeqDelete(activeObjects, poolArg')
             /\ poolArg' \notin Range(activeObjects')
             /\ resets' = <<poolArg'>>
             /\ pool' = IF Len(pool) < maxSize THEN Append(pool, poolArg')
                        ELSE pool
             /\ (tally' = <<3, 3>> /\ maxSize = 2)
                   => /\ Len(pool') = 2
                      /\ activeObjects' = <<>>]_vars

\* Three instances were acquired from a new pool with maxSize = 2 and all
\* three released: the third was dropped.
C23_Witness ==
    /\ tally = <<3, 3>>
    /\ maxSize = 2
    /\ poolOp = "release"
    /\ Len(pool) = 2
    /\ activeObjects = <<>>
    /\ resets = <<poolArg>>
    /\ poolArg \notin Range(pool)

\* ---- C24
\* C24: release(obj) returns true exactly when obj was in the active set at
\* the time of the call, also when the free list is full and the instance is
\* dropped.
C24_ReleaseReturnsWasActive ==
    [][poolOp' = "release"
          => (poolRet' = "true" <=> poolArg' \in Active)]_vars

\* ---- C25
\* C25: after releaseAll() the active set is empty and reset has been applied
\* exactly once to each instance that was active at the call, and to no
\* other.
C25_ReleaseAllResetsEachOnce ==
    [][poolOp' = "releaseAll"
          => /\ activeObjects' = <<>>
             /\ \A o \in 0..MaxObjs :
                   Cardinality({k \in 1..Len(resets') : resets'[k] = o})
                      = IF o \in Active THEN 1 ELSE 0]_vars

\* releaseAll() released two or more instances, one of them dropped.
C25_Witness ==
    /\ poolOp = "releaseAll"
    /\ Len(resets) >= 2
    /\ activeObjects = <<>>
    /\ \E o \in Range(resets) : o \notin Range(pool)

\* ---- C26
\* C26: warmup(n) leaves the free list at length max(previous length, n),
\* the previous entries in place and every added entry a new factory
\* instance, and leaves the active set unchanged; when the free list already
\* holds n or more entries nothing changes and factory() is not called.
C26_WarmupGrowsTo ==
    [][poolOp' = "warmup"
          => /\ Len(pool') = Max(Len(pool), poolArg')
             /\ IsPrefix(pool, pool')
             /\ \A i \in (Len(pool) + 1)..Len(pool') : pool'[i] > created
             /\ factoryCalls' = Len(pool') - Len(pool)
             /\ activeObjects' = activeObjects
             /\ (Len(pool) >= poolArg')
                   => pool' = pool /\ factoryCalls' = 0]_vars

\* warmup() added instances behind those the free list already held, while
\* an instance was active.
C26_Witness ==
    /\ poolOp = "warmup"
    /\ factoryCalls >= 1
    /\ Len(pool) > factoryCalls
    /\ Len(pool) = poolArg
    /\ activeObjects # <<>>

\* ---- C27
\* C27: trim(m) with m >= 0 leaves the free list at length
\* min(previous length, m), keeping its first entries, and the active set
\* unchanged; trim(m) with m < 0 throws and leaves both unchanged.
C27_TrimShrinksTo ==
    [][poolOp' = "trim"
          => IF poolArg' >= 0
             THEN /\ poolRet' = "void"
                  /\ Len(pool') = Min(Len(pool), poolArg')
                  /\ IsPrefix(pool', pool)
                  /\ activeObjects' = activeObjects
             ELSE /\ poolRet' = "error"
                  /\ pool' = pool
                  /\ activeObjects' = activeObjects]_vars

\* trim(-1) was rejected by a pool with free and active instances.
C27_Witness ==
    /\ poolOp = "trim"
    /\ poolArg < 0
    /\ poolRet = "error"
    /\ pool # <<>>
    /\ activeObjects # <<>>

\* ---- C28
\* C28: no pool has a negative maxSize: the constructor throws when it is
\* given one.
C28_NoNegativeMaxSize ==
    (poolOp = "constructor" /\ poolRet # "error") => maxSize >= 0

C29_PositiveDimensions ==
    /\ entity.dimensions.width > 0
    /\ entity.dimensions.height > 0

\* ======================================================= GameStateManager
\* ---- C31
\* C31: resetGame() leaves highScore as it was just before the call, and
\* sets score to 0, level to 1 and lives to 3.
C31_ResetKeepsHighScore ==
    [][gsmOp' = "resetGame"
          => /\ gsm'.stats.highScore = gsm.stats.highScore
             /\ gsm'.stats.score = 0
             /\ gsm'.stats.level = 1
             /\ gsm'.stats.lives = 3]_vars

\* ---- C40
\* C40: highScore >= score in every state reached by addScore with
\* non-negative points and resetGame.
C40_HighScoreAtLeastScore == gsm.stats.highScore >= gsm.stats.score

\* addScore left the score above 0 and below a high score saved earlier.
C40_Witness ==
    /\ gsmOp = "addScore"
    /\ gsm.stats.score > 0
    /\ gsm.stats.highScore > gsm.stats.score

\* ============================================== schedulers, second group
\* ---- C32
\* C32: when an update callback throws during a start() or a frame, that call
\* is the last update call of the operation and render is not called in it.
C32_ThrowEndsFrame ==
    (op \in {"start", "frame"} /\ threwAt > 0)
        => (updCalls = threwAt /\ rendCalls = 0)

\* The same statement for GameLoop.tick and GameEngine.gameLoop alone.
TickThrowEndsFrame ==
    (impl \in {"GameLoop", "GameEngine"} /\ op \in {"start", "frame"}
        /\ threwAt > 0)
        => (updCalls = threwAt /\ rendCalls = 0)

\* ---- C33
\* C33: at most one frame request is pending in every state reached by
\* start(), stop() and the delivery of frames.
C33_OneFramePending == Cardinality(rafQueue) <= 1

\* The same statement for GameLoop.tick and GameEngine.gameLoop alone.
TickOneFramePending ==
    (impl \in {"GameLoop", "GameEngine"}) => Cardinality(rafQueue) <= 1

\* ---- C34
\* C34: when an update callback calls stop() and no update callback throws,
\* the frame still drains the accumulator below one fixed step, making every
\* update call the loop owes, and calls render once; the scheduler is stopped
\* afterwards, and a frame delivered to a stopped scheduler calls neither
\* update nor render.
C34_StopInCallbackFinishesTick ==
    [][/\ (op' \in {"start", "frame"} /\ stoppedAt' > 0 /\ threwAt' = 0)
             => /\ updCalls' = steps'
                /\ DLess(Accumulator', FixedStep')
                /\ rendCalls' = 1
                /\ ~Running'
       /\ (op' = "frame" /\ ~Running)
             => /\ updCalls' = 0
                /\ rendCalls' = 0]_vars

\* The first update call of a frame of GameLoop.tick called stop(); a second
\* update call and the render call followed.
C34_Witness ==
    /\ impl = "GameLoop"
    /\ op = "frame"
    /\ stoppedAt = 1
    /\ updCalls >= 2
    /\ rendCalls = 1
    /\ ~Running
    /\ rafQueue = {}

\* ---- C35
\* C35: after every frame of GameLoop.tick and GameEngine.gameLoop that was
\* delivered to a running loop and in which no callback threw, the
\* accumulator is at least 0 and below the fixed step; it is never negative.
C35_AccumulatorBelowStep ==
    /\ (impl \in {"GameLoop", "GameEngine"} /\ op = "frame" /\ wasRunning
           /\ ~threw)
          => DLess(Accumulator, FixedStep)
    /\ DLeq(DZero, Accumulator)

\* The same statement for the frames that reached the loop, which leaves out
\* the frames GameEngine.gameLoop consumed while Paused.
AccumulatorBelowStepUnpaused ==
    /\ (impl \in {"GameLoop", "GameEngine"} /\ op = "frame" /\ wasRunning
           /\ ~threw /\ ~Paused)
          => DLess(Accumulator, FixedStep)
    /\ DLeq(DZero, Accumulator)

C37_RegisterTwiceNoOp ==
    [][/\ collOp' = "register(again)"
             => /\ collidables' = collidables
                /\ Len(collidables') = Len(collidables)
                /\ ~collRaised'
       /\ \A c \in 1..MaxEnts : Count(collidables', c) <= 1
       /\ collOp' = "checkCollisions"
             => \A a \in 1..MaxEnts, b \in 1..MaxEnts :
                   Count(notified', <<a, b>>) <= 1]_vars

\* An entity was registered again in a registry of two or more entities.
C37_Witness ==
    /\ collOp = "register(again)"
    /\ Len(collidables) >= 2
    /\ ~collRaised

\* ---- C38
\* C38: for every two boxes, CollisionSystem.detectCollision,
\* CollisionDetector.detectCollision(...).hasCollision and the two
\* Entity.collidesWith give the same boolean.
C38_OverlapTestsAgree ==
    (query.fn \in {"CollisionSystem.detectCollision",
                   "CollisionDetector.detectCollision",
                   "Entity.collidesWith",
                   "Entity.collidesWith(part_003)"})
        => LET a == query.a
               b == query.b
           IN  /\ CollisionSystem_detectCollision(a, b) = QueryHit
               /\ CollisionDetector_detectCollision(a, b).hasCollision = QueryHit
               /\ Entity_collidesWith(a, b) = QueryHit
               /\ Entity_collidesWith_part_003(a, b) = QueryHit

HasNaN(box) == NaN \in {box.x, box.y, box.width, box.height}

\* The same statement for the boxes none of whose fields is NaN.
OverlapTestsAgreeOnNumbers ==
    (/\ query.fn \in {"CollisionSystem.detectCollision",
                      "CollisionDetector.detectCollision",
                      "Entity.collidesWith",
                      "Entity.collidesWith(part_003)"}
     /\ ~HasNaN(query.a)
     /\ ~HasNaN(query.b))
        => LET a == query.a
               b == query.b
           IN  /\ CollisionSystem_detectCollision(a, b) = QueryHit
               /\ CollisionDetector_detectCollision(a, b).hasCollision = QueryHit
               /\ Entity_collidesWith(a, b) = QueryHit
               /\ Entity_collidesWith_part_003(a, b) = QueryHit

\* ---- C39
\* C39: an instance acquire() returns that had been active before has had
\* reset applied exactly once since it was last active; an instance in the
\* free list that had been active has had reset applied exactly once, and no
\* instance is in the free list twice or in it while active.
C39_ResetOnceBeforeReuse ==
    [][/\ (poolOp' = "acquire" /\ resetsSinceActive[acquired'] # NeverActive)
             => resetsSinceActive[acquired'] = 1
       /\ \A k \in 1..Len(pool') :
             /\ resetsSinceActive'[pool'[k]] \in {NeverActive, 1}
             /\ pool'[k] \notin Range(activeObjects')
             /\ Count(pool', pool'[k]) = 1]_vars

\* acquire() returned an instance that had been active and released before,
\* while another instance was active.
C39_Witness ==
    /\ poolOp = "acquire"
    /\ factoryCalls = 0
    /\ resetsSinceActive[acquired] = 1
    /\ Len(activeObjects) >= 2

====
